---- MODULE Spec2Model ----
(***************************************************************************)
(* Verification model of the obsidian-nanogpt plugin.                      *)
(*                                                                         *)
(* The specifications share this module, one per component:                *)
(*   SpecSSE    NanoGPTClient.streamChatCompletion (SSE stream consumer)   *)
(*   SpecCache  NanoGPTClient.listModels / listImageModels (TTL cache)     *)
(*   SpecInvalidate  the same cache around invalidateCache                 *)
(*   SpecChat   ChatHistoryManager and the ChatView that drives it         *)
(*   SpecAuto   NanoGPTPlugin.inlineAutocomplete and the ghost text        *)
(*   SpecEdit   ChatView.sendMessage, its branches and the edit preview    *)
(*   SpecFolder ChatView.getFolderContext                                  *)
(*   SpecClient NanoGPTClient.fetchWithAuth and the request methods        *)
(*   SpecDebounce  the editor-change handler and its timer                 *)
(*   SpecNotes  getUniqueNotePath and the commands that create notes       *)
(* Each specification moves only the variables of its component.           *)
(***************************************************************************)
EXTENDS Integers, Sequences, FiniteSets, TLC

VARIABLES
    \* ---- streamChatCompletion ----
    stream,        \* the whole response body, a sequence of tokens
    pos,           \* number of tokens already handed out by reader.read()
    buffer,        \* let buffer = ''
    chunks,        \* the arguments of the onChunk calls made so far, in order
    sseDone,       \* reader.read() has returned done: the call has returned
    \* ---- model-list cache ----
    now,           \* Date.now()
    apiKey,        \* NanoGPTClient.apiKey
    modelCache,    \* NanoGPTClient.modelCache: cache key -> entry or NoEntry
    imageModelCache, \* NanoGPTClient.imageModelCache: entry or NoEntry
    pending,       \* per endpoint, the HTTP requests sent and not yet answered
    lastRet,       \* what the most recent listModels/listImageModels call returned
    issuedBefore,  \* per endpoint, the pending requests sent before the last
                   \* invalidateCache
    staleEntries,  \* the cache entries stored from such requests
    \* ---- chat history store and chat view ----
    heap,          \* the message arrays: address -> the messages of the array
    history,       \* ChatHistoryManager.history: path -> address of its array, or 0
    loaded,        \* ChatHistoryManager.loaded
    linked,        \* settings.chatHistory is the object ChatHistoryManager.history
    other,         \* a plugin setting other than chatHistory
    handed,        \* the data last handed to plugin.saveData
    activeFile,    \* ChatView.activeFile
    messages,      \* ChatView.messages: the address of the array
    isGenerating,  \* ChatView.isGenerating
    sendPc,        \* where the running sendMessage is
    sendNote,      \* the note that was active when the running sendMessage began
    clearPc,       \* where the running clearChat is
    cleared,       \* the note cleared by Clear Chat with no message sent since
    \* ---- inline autocomplete ----
    doc,           \* the text of the editor's document
    cur,           \* the cursor, as an offset into doc
    hasCm,         \* editor.cm is an EditorView with a dispatch function
    enabled,       \* settings.inlineAutocompleteEnabled
    ghost,         \* the value of ghostTextStateField
    timer,         \* a debounce timer is pending
    inlineAutocompleteInFlight,
    inlineAutocompleteRequestId,
    requests,      \* the inlineAutocomplete calls waiting for their stream
    lastOutcome,   \* how an inlineAutocomplete call ended, if the last step ended one
    \* ---- ChatView.sendMessage: its branches, the vault ----
    vault,         \* the content of each note
    chatMode,      \* ChatView.chatMode
    sending,       \* the message the running sendMessage was called with
    noteContent,   \* what getNoteContent returned to the running sendMessage
    modal,         \* the promise of confirmScrapeUrls
    contextNote,   \* the note passed to the running note creation
    scrapeReqs,    \* number of scrape requests sent
    scrapeNotes,   \* number of notes created from scrape results
    sent,          \* number of sendMessage calls that passed the guard
    buttons,       \* the Accept/Reject controls in the chat container
    tally,         \* what the last sendMessage call has done so far
    \* ---- getFolderContext ----
    contents,              \* what vault.read returns for each file
    folderActive,          \* this.activeFile (ChatView), this.file (modal)
    folderContextEnabled,
    folderContextMaxFiles,
    folderContextMaxChars,
    files,                 \* the siblings found by the running call
    fileIdx,               \* the position of its for loop in files
    contextEntries,        \* the files whose entries were pushed
    totalChars,
    fileCount,
    folderPc,              \* where the call is
    folderResult,          \* what the call returned
    \* ---- the client's requests ----
    outstanding,   \* per method, the HTTP requests that await their response
    lastCall,      \* the method last called or answered, and how that went
    \* ---- the autocomplete timer ----
    clock,                     \* the time, in units of the model
    inlineAutocompleteEnabled, \* settings.inlineAutocompleteEnabled
    inlineAutocompleteDelayMs, \* settings.inlineAutocompleteDelayMs
    inlineAutocompleteTimer,   \* the handle of the last setTimeout, 0 for none
    timeouts,                  \* the timeouts of the window that are pending
    lastChange,                \* when the editor last changed, -1 for never
    attempt,                   \* the last call made by a timeout
    \* ---- notes created from the chat ----
    paths,         \* the paths that exist in the vault
    titles,        \* the titles of the running command
    titleIdx,      \* the title the loop is at
    notePath,      \* const notePath of the iteration
    createdPaths,  \* const createdPaths
    notesPc,       \* where the running command is
    notesKind,     \* which of the two commands runs
    removed        \* a file was deleted from the folder while the command runs

sseVars   == <<stream, pos, buffer, chunks, sseDone>>
cacheVars == <<now, apiKey, modelCache, imageModelCache, pending, lastRet,
               issuedBefore, staleEntries>>
chatVars  == <<heap, history, loaded, linked, other, handed, activeFile,
               messages, isGenerating, sendPc, sendNote, clearPc, cleared>>
autoVars  == <<doc, cur, hasCm, enabled, ghost, timer,
               inlineAutocompleteInFlight, inlineAutocompleteRequestId,
               requests, lastOutcome>>
editVars  == <<vault, chatMode, sending, noteContent, modal, contextNote,
               scrapeReqs, scrapeNotes, sent, buttons, tally>>
folderVars == <<contents, folderActive, folderContextEnabled,
                folderContextMaxFiles, folderContextMaxChars, files, fileIdx,
                contextEntries, totalChars, fileCount, folderPc, folderResult>>
clientVars == <<outstanding, lastCall>>
debounceVars == <<clock, inlineAutocompleteEnabled, inlineAutocompleteDelayMs,
                  inlineAutocompleteTimer, timeouts, lastChange, attempt>>
notesVars == <<paths, titles, titleIdx, notePath, createdPaths, notesPc,
               notesKind, removed>>
moreVars  == <<debounceVars, notesVars>>
vars      == <<sseVars, cacheVars, chatVars, autoVars, editVars, folderVars,
               clientVars, debounceVars, notesVars>>
notSSE    == <<cacheVars, chatVars, autoVars, editVars, folderVars, clientVars,
               moreVars>>
notCache  == <<sseVars, chatVars, autoVars, editVars, folderVars, clientVars,
               moreVars>>
notChat   == <<sseVars, cacheVars, autoVars, editVars, folderVars, clientVars,
               moreVars>>
notClient == <<sseVars, chatVars, autoVars, editVars, folderVars, now,
               modelCache, imageModelCache, pending, lastRet, issuedBefore,
               staleEntries, moreVars>>
notEdit   == <<sseVars, cacheVars, autoVars, heap, history, loaded, linked,
               other, handed, messages, sendNote, clearPc, cleared,
               folderVars, clientVars, moreVars>>
notFolder == <<sseVars, cacheVars, chatVars, autoVars, editVars, clientVars,
               moreVars>>
notAuto   == <<sseVars, chatVars, now, modelCache, imageModelCache, pending,
               lastRet, issuedBefore, staleEntries, editVars, folderVars,
               clientVars, moreVars>>
notDebounce == <<sseVars, cacheVars, chatVars, autoVars, editVars, folderVars,
                 clientVars, notesVars>>
notNotes  == <<sseVars, cacheVars, chatVars, autoVars, editVars, folderVars,
               clientVars, debounceVars>>

(***************************************************************************)
(* Bounds.                                                                 *)
(***************************************************************************)
MaxSegs == 3        \* a response body is made of at most MaxSegs segments
MaxPeriods == 1     \* the clock runs over MaxPeriods cache durations
MaxPending == 1     \* at most MaxPending unanswered requests per endpoint
MaxMsgs == 2        \* a message array holds at most MaxMsgs messages
MaxDoc == 3         \* the user types while the document is shorter than MaxDoc
MaxReq == 2         \* at most MaxReq autocomplete requests are started
MaxSends == 2       \* at most MaxSends messages are sent in the branch model
MaxClock == 4       \* the clock of the timer model runs up to MaxClock
MaxTitles == 3      \* a command names at most MaxTitles notes
MaxPaths == 4       \* the folder holds at most MaxPaths files

(***************************************************************************)
(*                       streamChatCompletion                              *)
(*                                                                         *)
(* A response body is a sequence of tokens.  "data:" is the five           *)
(* characters `data:`, " " a space, "CR" a carriage return, "NL" a line    *)
(* feed, "[DONE]" the sentinel text.  The JSON text                        *)
(* {"choices":[{"delta":{"content":"a"}}]} is the three tokens "{" "a" "}" *)
(* so that a read can end inside it; "e" stands for the empty string       *)
(* content "" and "{" "}" for a chunk object without a content field.      *)
(***************************************************************************)
WS == {" ", "CR"}

Segments ==
    { <<"data:", " ", "{", "a", "}", "NL">>,
      <<"data:", " ", "{", "b", "}", "NL">>,
      <<"data:", " ", "{", "b", "}", "CR", "NL">>,
      <<"data:", " ", "{", "e", "}", "NL">>,
      <<"data:", " ", "[DONE]", "NL">>,
      <<"data:", " ", "{", "a", "NL">>,
      <<"data:", "{", "a", "}", "NL">>,
      <<"data:", " ", "{", "b", "}">>,
      <<"NL">>,
      <<" ">> }

RECURSIVE StreamsOf(_)
StreamsOf(n) ==
    IF n = 0 THEN { <<>> }
    ELSE LET shorter == StreamsOf(n - 1)
         IN  shorter \cup { s \o g : s \in shorter, g \in Segments }

Streams == StreamsOf(MaxSegs)

\* buffer.split('\n'): the pieces between line feeds; always at least one.
RECURSIVE Split(_)
Split(s) ==
    IF \A i \in 1..Len(s) : s[i] # "NL" THEN << s >>
    ELSE LET i == CHOOSE k \in 1..Len(s) :
                      s[k] = "NL" /\ \A j \in 1..(k - 1) : s[j] # "NL"
         IN  << SubSeq(s, 1, i - 1) >> \o Split(SubSeq(s, i + 1, Len(s)))

\* Mutant of Remainder: the unfinished line is dropped after each read.
RemainderDropped(pieces) == <<>>

\* lines.pop() || '': the text after the last line feed stays in the buffer.
Remainder(pieces) == pieces[Len(pieces)]

\* The array that is left after lines.pop(): the complete lines.
CompleteLines(pieces) == SubSeq(pieces, 1, Len(pieces) - 1)

\* String.prototype.trim
RECURSIVE TrimStart(_)
TrimStart(s) ==
    IF s # <<>> /\ s[1] \in WS THEN TrimStart(Tail(s)) ELSE s

RECURSIVE TrimEnd(_)
TrimEnd(s) ==
    IF s # <<>> /\ s[Len(s)] \in WS THEN TrimEnd(SubSeq(s, 1, Len(s) - 1))
    ELSE s

Trim(s) == TrimEnd(TrimStart(s))

\* trimmedLine.startsWith('data: ')
StartsWithData(s) == Len(s) >= 2 /\ s[1] = "data:" /\ s[2] = " "

\* trimmedLine.slice(6)
Slice6(s) == SubSeq(s, 3, Len(s))

\* JSON.parse followed by chunk.choices[0]?.delta?.content.  JSON.parse
\* accepts white space around the value.  The result is the content ("a",
\* "b", "" for the empty string), "undefined" when the field is missing, or
\* "throw" when JSON.parse raises a SyntaxError.
DeltaContent(jsonStr) ==
    LET t == Trim(jsonStr)
    IN  IF t = <<"{", "a", "}">> THEN "a"
        ELSE IF t = <<"{", "b", "}">> THEN "b"
        ELSE IF t = <<"{", "e", "}">> THEN ""
        ELSE IF t = <<"{", "}">> THEN "undefined"
        ELSE "throw"

\* if (content) onChunk(content)
Truthy(content) == content \notin {"", "undefined", "throw"}

\* The body of the for loop: the onChunk calls one line causes.
LineChunks(line) ==
    LET trimmedLine == Trim(line)
    IN  IF trimmedLine = <<>> \/ trimmedLine = <<"data:", " ", "[DONE]">>
        THEN <<>>
        ELSE IF ~StartsWithData(trimmedLine) THEN <<>>
        ELSE LET content == DeltaContent(Slice6(trimmedLine))
             IN  IF Truthy(content) THEN << content >> ELSE <<>>

\* for (const line of lines) { ... }
RECURSIVE LinesChunks(_)
LinesChunks(lines) ==
    IF lines = <<>> THEN <<>>
    ELSE LineChunks(Head(lines)) \o LinesChunks(Tail(lines))

InitSSE ==
    /\ stream \in Streams
    /\ pos = 0
    /\ buffer = <<>>
    /\ chunks = <<>>
    /\ sseDone = FALSE

IdleSSE ==
    /\ stream = <<>>
    /\ pos = 0
    /\ buffer = <<>>
    /\ chunks = <<>>
    /\ sseDone = FALSE

\* One iteration of the while loop whose read returns n more tokens.
Read(n) ==
    /\ ~sseDone
    /\ pos + n <= Len(stream)
    /\ LET value  == SubSeq(stream, pos + 1, pos + n)
           pieces == Split(buffer \o value)
       IN  /\ buffer' = Remainder(pieces)
           /\ chunks' = chunks \o LinesChunks(CompleteLines(pieces))
    /\ pos' = pos + n
    /\ UNCHANGED <<stream, sseDone>>
    /\ UNCHANGED notSSE

\* The iteration whose read returns done: break, releaseLock, return.
ReadDone ==
    /\ ~sseDone
    /\ pos = Len(stream)
    /\ sseDone' = TRUE
    /\ UNCHANGED <<stream, pos, buffer, chunks>>
    /\ UNCHANGED notSSE

NextSSE ==
    \/ \E n \in 1..Len(stream) : Read(n)
    \/ ReadDone

(***************************************************************************)
(*                 listModels / listImageModels                            *)
(*                                                                         *)
(* Time is Date.now() in milliseconds.  The clock moves between the        *)
(* multiples of CACHE_DURATION and the millisecond before each, which are  *)
(* the instants where the age of a cache entry crosses the limit.          *)
(***************************************************************************)
CACHE_DURATION == 300000

TimePoints ==
    { t \in { k * CACHE_DURATION + e : k \in 0..MaxPeriods, e \in {-1, 0} } :
        t >= 0 }

CacheKeys == {"subscription", "all"}
Endpoints == CacheKeys \cup {"image"}
NoEntry   == [none |-> TRUE]
NoRet     == [none |-> TRUE]

\* A list the server answered with: which endpoint sent it, and which of the
\* server's lists it is.
ListVersions == {1, 2}

\* The three-entry list returned from the catch blocks.
Fallback(endpoint) == [from |-> endpoint, ver |-> 0]

Keys == {"", "sk"}

\* Mutant of CacheKeyOf: one key for both values of subscriptionOnly.
CacheKeySame(subscriptionOnly) == "all"

\* const cacheKey = subscriptionOnly ? 'subscription' : 'all'
CacheKeyOf(subscriptionOnly) == IF subscriptionOnly THEN "subscription" ELSE "all"

\* Mutant of CacheFresh: an entry is still served at the age CACHE_DURATION.
CacheFreshInclusive(t, timestamp) == t - timestamp <= CACHE_DURATION

\* Date.now() - cached.timestamp < this.CACHE_DURATION
CacheFresh(t, timestamp) == t - timestamp < CACHE_DURATION

InitCache ==
    /\ now = 0
    /\ apiKey \in Keys
    /\ modelCache = [k \in CacheKeys |-> NoEntry]
    /\ imageModelCache = NoEntry
    /\ pending = [e \in Endpoints |-> 0]
    /\ lastRet = NoRet
    /\ issuedBefore = [e \in Endpoints |-> 0]
    /\ staleEntries = {}

IdleCache ==
    /\ now = 0
    /\ apiKey = ""
    /\ modelCache = [k \in CacheKeys |-> NoEntry]
    /\ imageModelCache = NoEntry
    /\ pending = [e \in Endpoints |-> 0]
    /\ lastRet = NoRet
    /\ issuedBefore = [e \in Endpoints |-> 0]
    /\ staleEntries = {}

\* The part of a list call that runs before its first await: the cache
\* check, then fetchWithAuth up to the call of fetch.  `cached` is the entry
\* the call looks at.  With an empty key fetchWithAuth throws before fetch
\* and the catch block returns the fallback list.
CallStart(endpoint, cached) ==
    IF cached # NoEntry /\ CacheFresh(now, cached.timestamp)
    THEN /\ lastRet' = [endpoint |-> endpoint, path |-> "cache",
                        models |-> cached.models]
         /\ UNCHANGED pending
    ELSE IF apiKey = ""
    THEN /\ lastRet' = [endpoint |-> endpoint, path |-> "fallback",
                        models |-> Fallback(endpoint)]
         /\ UNCHANGED pending
    ELSE /\ pending[endpoint] < MaxPending
         /\ pending' = [pending EXCEPT ![endpoint] = @ + 1]
         /\ lastRet' = [endpoint |-> endpoint, path |-> "request"]

ListModels(subscriptionOnly) ==
    /\ CallStart(CacheKeyOf(subscriptionOnly),
                 modelCache[CacheKeyOf(subscriptionOnly)])
    /\ UNCHANGED <<now, apiKey, modelCache, imageModelCache, issuedBefore,
                   staleEntries>>
    /\ UNCHANGED notCache

ListImageModels ==
    /\ CallStart("image", imageModelCache)
    /\ UNCHANGED <<now, apiKey, modelCache, imageModelCache, issuedBefore,
                   staleEntries>>
    /\ UNCHANGED notCache

\* The request of a list call is answered with a list: the rest of the try
\* block stores it with the time of the answer and returns it.  The request
\* of listModels(true) is the one pending at "subscription", and the list is
\* stored under the cacheKey of its call.
Stored(endpoint, ver) ==
    /\ pending[endpoint] > 0
    /\ pending' = [pending EXCEPT ![endpoint] = @ - 1]
    /\ LET entry == [models |-> [from |-> endpoint, ver |-> ver],
                     timestamp |-> now]
       IN  IF endpoint = "image"
           THEN /\ imageModelCache' = entry
                /\ UNCHANGED modelCache
           ELSE /\ modelCache' = [modelCache EXCEPT
                                      ![CacheKeyOf(endpoint = "subscription")]
                                          = entry]
                /\ UNCHANGED imageModelCache
    /\ UNCHANGED <<now, apiKey, lastRet>>
    /\ UNCHANGED notCache

FetchOk(endpoint, ver) ==
    /\ Stored(endpoint, ver)
    /\ UNCHANGED <<issuedBefore, staleEntries>>

\* Mutant of EntryAfterCatch: the catch block stores the list it returns.
EntryAfterCatchStored(cached, endpoint) ==
    [models |-> Fallback(endpoint), timestamp |-> now]

\* What the cache holds for the endpoint when the catch block has returned:
\* the block has no set.
EntryAfterCatch(cached, endpoint) == cached

\* The request fails (network error, non-OK status, unparsable body): the
\* catch block returns the fallback list.
Failed(endpoint) ==
    /\ pending[endpoint] > 0
    /\ pending' = [pending EXCEPT ![endpoint] = @ - 1]
    /\ lastRet' = [endpoint |-> endpoint, path |-> "fallback",
                   models |-> Fallback(endpoint)]
    /\ IF endpoint = "image"
       THEN /\ imageModelCache' = EntryAfterCatch(imageModelCache, endpoint)
            /\ UNCHANGED modelCache
       ELSE /\ modelCache' = [modelCache EXCEPT ![endpoint] =
                                 EntryAfterCatch(@, endpoint)]
            /\ UNCHANGED imageModelCache
    /\ UNCHANGED <<now, apiKey>>
    /\ UNCHANGED notCache

FetchFail(endpoint) ==
    /\ Failed(endpoint)
    /\ UNCHANGED <<issuedBefore, staleEntries>>

\* NanoGPTPlugin.saveSettings after its await: setApiKey, invalidateCache.
Invalidated(key) ==
    /\ apiKey' = key
    /\ modelCache' = [k \in CacheKeys |-> NoEntry]
    /\ imageModelCache' = NoEntry
    /\ UNCHANGED <<now, pending, lastRet>>
    /\ UNCHANGED notCache

SaveSettings(key) ==
    /\ Invalidated(key)
    /\ UNCHANGED <<issuedBefore, staleEntries>>

\* The same three steps with a record of which requests were sent before the
\* last invalidateCache.  One of the pending requests of an endpoint is
\* answered: one sent before it (`early`) or one sent after it.
Answered(endpoint, early) ==
    /\ IF early THEN issuedBefore[endpoint] > 0
       ELSE pending[endpoint] > issuedBefore[endpoint]
    /\ issuedBefore' = IF early THEN [issuedBefore EXCEPT ![endpoint] = @ - 1]
                       ELSE issuedBefore

FetchOkOf(endpoint, ver, early) ==
    /\ Stored(endpoint, ver)
    /\ Answered(endpoint, early)
    /\ staleEntries' = IF early THEN staleEntries \cup {endpoint}
                       ELSE staleEntries \ {endpoint}

FetchFailOf(endpoint, early) ==
    /\ Failed(endpoint)
    /\ Answered(endpoint, early)
    /\ UNCHANGED staleEntries

SaveSettingsNow(key) ==
    /\ Invalidated(key)
    /\ issuedBefore' = pending
    /\ staleEntries' = {}

Tick(t) ==
    /\ t > now
    /\ now' = t
    /\ UNCHANGED <<apiKey, modelCache, imageModelCache, pending, lastRet,
                   issuedBefore, staleEntries>>
    /\ UNCHANGED notCache

NextCache ==
    \/ \E sub \in BOOLEAN : ListModels(sub)
    \/ ListImageModels
    \/ \E e \in Endpoints, v \in ListVersions : FetchOk(e, v)
    \/ \E e \in Endpoints : FetchFail(e)
    \/ \E k \in Keys : SaveSettings(k)
    \/ \E t \in TimePoints : Tick(t)

\* The cache within one cache duration, with the record of the requests.
NextInvalidate ==
    \/ \E sub \in BOOLEAN : ListModels(sub)
    \/ ListImageModels
    \/ \E e \in Endpoints, v \in ListVersions, early \in BOOLEAN :
           FetchOkOf(e, v, early)
    \/ \E e \in Endpoints, early \in BOOLEAN : FetchFailOf(e, early)
    \/ \E k \in Keys : SaveSettingsNow(k)

(***************************************************************************)
(*                 ChatHistoryManager and ChatView                         *)
(*                                                                         *)
(* A message array is an object: ChatHistoryManager keeps the array it is  *)
(* given and returns the array it keeps, so the view and the store may     *)
(* hold the same array.  Arrays live in `heap` under an address; address 0 *)
(* is "no array".  A message is its role and the note that was active when *)
(* its exchange was sent, which stands for its content.                    *)
(***************************************************************************)
Paths  == {"a.md", "b.md"}
NoFile == "null"
Addr   == 1..(Cardinality(Paths) + 1)
Msg    == [role : {"user", "assistant"}, sentAt : Paths]
OtherValues == {"x", "y"}

\* The messages of the array at an address; none for "no array".
Contents(h, ref) == IF ref = 0 THEN <<>> ELSE h[ref]

\* The addresses in use by the store (minus the entry of path `except`).
StoreRefs(hist, except) == { hist[q] : q \in Paths \ {except} } \ {0}

\* The address of a new array: the lowest one not in use.
Fresh(used) == CHOOSE a \in Addr \ used : \A b \in Addr \ used : a <= b

\* Arrays nothing refers to any more are collected.
Collect(h, hist, m) ==
    [a \in Addr |-> IF a \in StoreRefs(hist, NoFile) \cup {m} THEN h[a] ELSE <<>>]

\* The settings object as saveData writes it: whether it has a chatHistory,
\* the lists in it by value, and the other setting.
Snapshot(h, hist, isLinked, value) ==
    [hasHistory  |-> isLinked,
     chatHistory |-> [q \in Paths |->
                         IF isLinked THEN Contents(h, hist[q]) ELSE <<>>],
     other       |-> value]

\* What loadChatHistory(file) returns for a path, as a list of messages:
\* this.history[file.path] || [].
LoadChatHistory(q) == Contents(heap, history[q])

InitChat ==
    /\ linked \in BOOLEAN
    /\ \E stored \in { <<>>, << [role |-> "user", sentAt |-> "a.md"],
                                [role |-> "assistant", sentAt |-> "a.md"] >> } :
          /\ (~linked => stored = <<>>)
          /\ heap = [a \in Addr |-> IF a = 1 THEN stored ELSE <<>>]
          /\ history = [q \in Paths |->
                           IF q = "a.md" /\ stored # <<>> THEN 1 ELSE 0]
    /\ loaded = FALSE
    /\ other \in OtherValues
    /\ handed = Snapshot(heap, history, linked, other)
    /\ activeFile = NoFile
    /\ messages = 2
    /\ isGenerating = FALSE
    /\ sendPc = "idle"
    /\ sendNote = NoFile
    /\ clearPc = "idle"
    /\ cleared = NoFile

IdleChat ==
    /\ linked = FALSE
    /\ heap = [a \in Addr |-> <<>>]
    /\ history = [q \in Paths |-> 0]
    /\ loaded = FALSE
    /\ other = "x"
    /\ handed = Snapshot(heap, history, FALSE, "x")
    /\ activeFile = NoFile
    /\ messages = 2
    /\ isGenerating = FALSE
    /\ sendPc = "idle"
    /\ sendNote = NoFile
    /\ clearPc = "idle"
    /\ cleared = NoFile

\* Mutant of SaveChatHistory: the store is replaced by one that holds only
\* the saved path.
SaveChatHistoryOnly(file, ref, h) ==
    /\ loaded' = TRUE
    /\ history' = [q \in Paths |-> IF q = file THEN ref ELSE 0]
    /\ linked' = TRUE
    /\ handed' = Snapshot(h, history', TRUE, other)

\* ChatHistoryManager.saveChatHistory(file, messages) up to its call of
\* saveData: `ref` is the array passed, `h` the heap at the call.
SaveChatHistory(file, ref, h) ==
    /\ loaded' = TRUE
    /\ history' = [history EXCEPT ![file] = ref]
    /\ linked' = TRUE
    /\ handed' = Snapshot(h, history', TRUE, other)

\* The file-open handler: activeFile is set, and onActiveFileChange loads the
\* history of a note; with no note the message list is left as it is.
FileOpen(file) ==
    /\ activeFile' = file
    /\ IF file = NoFile
       THEN UNCHANGED <<messages, heap, loaded>>
       ELSE /\ loaded' = TRUE
            /\ messages' = IF history[file] # 0 THEN history[file]
                           ELSE Fresh(StoreRefs(history, NoFile))
            /\ heap' = Collect(heap, history, 0)
    /\ UNCHANGED <<history, linked, other, handed, isGenerating, sendPc,
                   sendNote, clearPc, cleared>>
    /\ UNCHANGED notChat

\* sendMessage from its guard to its first await: the user message is pushed
\* onto this.messages.
SendStart ==
    /\ ~isGenerating
    /\ activeFile # NoFile
    /\ Len(heap[messages]) + 2 <= MaxMsgs
    /\ isGenerating' = TRUE
    /\ heap' = [heap EXCEPT ![messages] =
                   Append(@, [role |-> "user", sentAt |-> activeFile])]
    /\ sendPc' = "generating"
    /\ sendNote' = activeFile
    /\ cleared' = NoFile
    /\ UNCHANGED <<history, loaded, linked, other, handed, activeFile,
                   messages, clearPc>>
    /\ UNCHANGED notChat

\* The reply is complete: the assistant message is pushed onto this.messages
\* and, if a note is active, saved under the note that is active now.
SendReply ==
    /\ sendPc = "generating"
    /\ Len(heap[messages]) < MaxMsgs
    /\ LET h == [heap EXCEPT ![messages] =
                    Append(@, [role |-> "assistant", sentAt |-> sendNote])]
       IN  IF activeFile # NoFile
           THEN /\ SaveChatHistory(activeFile, messages, h)
                /\ heap' = Collect(h, history', messages)
                /\ sendPc' = "saving"
                /\ UNCHANGED isGenerating
           ELSE /\ heap' = h
                /\ sendPc' = "idle"
                /\ isGenerating' = FALSE
                /\ UNCHANGED <<history, loaded, linked, handed>>
    /\ UNCHANGED <<other, activeFile, messages, sendNote, clearPc, cleared>>
    /\ UNCHANGED notChat

\* A branch throws: catch and finally.
SendFail ==
    /\ sendPc = "generating"
    /\ sendPc' = "idle"
    /\ isGenerating' = FALSE
    /\ UNCHANGED <<heap, history, loaded, linked, other, handed, activeFile,
                   messages, sendNote, clearPc, cleared>>
    /\ UNCHANGED notChat

\* saveData of the running sendMessage has finished: finally.
SendSaved ==
    /\ sendPc = "saving"
    /\ sendPc' = "idle"
    /\ isGenerating' = FALSE
    /\ UNCHANGED <<heap, history, loaded, linked, other, handed, activeFile,
                   messages, sendNote, clearPc, cleared>>
    /\ UNCHANGED notChat

\* clearChat up to the call of saveData: this.messages = [], and
\* clearChatHistory saves another new empty array.
ClearChat ==
    /\ clearPc = "idle"
    /\ activeFile # NoFile
    /\ LET kept == StoreRefs(history, activeFile)
           x    == Fresh(kept)
           y    == Fresh(kept \cup {x})
           h    == [heap EXCEPT ![x] = <<>>, ![y] = <<>>]
       IN  /\ messages' = x
           /\ SaveChatHistory(activeFile, y, h)
           /\ heap' = Collect(h, history', x)
    /\ clearPc' = "saving"
    /\ cleared' = activeFile
    /\ UNCHANGED <<other, activeFile, isGenerating, sendPc, sendNote>>
    /\ UNCHANGED notChat

\* saveData of the running clearChat has finished: renderMessages.
ClearDone ==
    /\ clearPc = "saving"
    /\ clearPc' = "idle"
    /\ UNCHANGED <<heap, history, loaded, linked, other, handed, activeFile,
                   messages, isGenerating, sendPc, sendNote, cleared>>
    /\ UNCHANGED notChat

\* ChatHistoryManager.appendMessage(file, message): the loaded array (a new
\* one when the path has none) gets the message pushed and is saved.  Nothing
\* follows its call of saveData.
AppendMessage(file, message) ==
    /\ Len(LoadChatHistory(file)) < MaxMsgs
    /\ LET ref == IF history[file] # 0 THEN history[file]
                  ELSE Fresh(StoreRefs(history, NoFile) \cup {messages})
           h   == [heap EXCEPT ![ref] = Append(LoadChatHistory(file), message)]
       IN  /\ SaveChatHistory(file, ref, h)
           /\ heap' = h
    /\ cleared' = IF file = cleared THEN NoFile ELSE cleared
    /\ UNCHANGED <<other, activeFile, messages, isGenerating, sendPc, sendNote,
                   clearPc>>
    /\ UNCHANGED notChat

\* The settings tab changes a setting and calls saveSettings, which hands
\* the settings object to saveData.
ChangeSetting(value) ==
    /\ value # other
    /\ other' = value
    /\ handed' = Snapshot(heap, history, linked, value)
    /\ UNCHANGED <<heap, history, loaded, linked, activeFile, messages,
                   isGenerating, sendPc, sendNote, clearPc, cleared>>
    /\ UNCHANGED notChat

NextChat ==
    \/ \E f \in Paths \cup {NoFile} : FileOpen(f)
    \/ SendStart
    \/ SendReply
    \/ SendFail
    \/ SendSaved
    \/ ClearChat
    \/ ClearDone
    \/ \E f \in Paths : AppendMessage(f, [role |-> "user", sentAt |-> f])
    \/ \E v \in OtherValues : ChangeSetting(v)

(***************************************************************************)
(*                 inlineAutocomplete and the ghost text                   *)
(*                                                                         *)
(* The document is a sequence of characters, "NL" the line break; the      *)
(* cursor is an offset.  Nothing is ever selected: somethingSelected() is  *)
(* false.  isApplyingAutocomplete is true only inside the step that        *)
(* inserts a completion, where it keeps the editor-change handler from     *)
(* scheduling a timer.                                                     *)
(***************************************************************************)
Typed   == {"a", " ", "NL"}
NoGhost == [text |-> <<>>, pos |-> 0]
\* The texts a finished stream may have accumulated.
Completions == { <<>>, <<" ">>, <<" ", "a", " ">> }
MinPrefix == 3

\* editor.offsetToPos / editor.getCursor: line and column of an offset.
PosOf(d, o) ==
    LET breaks == { i \in 1..o : d[i] = "NL" }
        last   == IF breaks = {} THEN 0
                  ELSE CHOOSE i \in breaks : \A j \in breaks : j <= i
    IN  [line |-> Cardinality(breaks), ch |-> o - last]

\* editor.getLine(n), n counted from 0.
GetLine(d, n) == Split(d)[n + 1]

\* editor.posToOffset: a position outside the text is brought back into it.
PosToOffset(d, p) ==
    IF p.line >= Len(Split(d)) THEN Len(d)
    ELSE LET inLine == { o \in 0..Len(d) : PosOf(d, o).line = p.line }
             from   == CHOOSE o \in inLine : \A j \in inLine : o <= j
             len    == Len(GetLine(d, p.line))
         IN  from + (IF p.ch > len THEN len ELSE p.ch)

\* currentLine.startsWith(linePrefix)
StartsWith(line, prefix) ==
    Len(line) >= Len(prefix) /\ SubSeq(line, 1, Len(prefix)) = prefix

\* completion.replace(/^\s+/, '').trimEnd()
Cleaned(completion) == TrimEnd(TrimStart(completion))

\* The document with text put in at an offset.
Insert(d, o, text) == SubSeq(d, 1, o) \o text \o SubSeq(d, o + 1, Len(d))

\* ChangeSet.mapPos for an insertion of n characters at offset o.
MapInsert(p, o, n) == IF p > o THEN p + n ELSE p

\* ChangeSet.mapPos for the deletion of the character at offset o.
MapDelete(p, o) == IF p >= o THEN p - 1 ELSE p

InitAuto ==
    /\ doc = <<>>
    /\ cur = 0
    /\ hasCm \in BOOLEAN
    /\ enabled \in BOOLEAN
    /\ apiKey \in Keys
    /\ ghost = NoGhost
    /\ timer = FALSE
    /\ inlineAutocompleteInFlight = FALSE
    /\ inlineAutocompleteRequestId = 0
    /\ requests = {}
    /\ lastOutcome = "none"

IdleAuto ==
    /\ doc = <<>>
    /\ cur = 0
    /\ hasCm = TRUE
    /\ enabled = FALSE
    /\ ghost = NoGhost
    /\ timer = FALSE
    /\ inlineAutocompleteInFlight = FALSE
    /\ inlineAutocompleteRequestId = 0
    /\ requests = {}
    /\ lastOutcome = "none"

\* ghostTextStateField.update and ghostTextClearer for a transaction that
\* changes the document or the selection and sets no ghost text: the ghost
\* position is mapped through the change; the clearer then dispatches the
\* clear effect from inside the view update, which the editor either
\* performs or refuses.
GhostAfter(mapped) ==
    IF ghost.text = <<>> THEN ghost' = ghost
    ELSE ghost' = NoGhost \/ ghost' = [ghost EXCEPT !.pos = mapped]

\* The editor-change handler: scheduleInlineAutocomplete when enabled.
EditorChange == timer' = (enabled \/ timer)

TypeChar(c) ==
    /\ Len(doc) < MaxDoc
    /\ doc' = Insert(doc, cur, <<c>>)
    /\ cur' = cur + 1
    /\ GhostAfter(MapInsert(ghost.pos, cur, 1))
    /\ EditorChange
    /\ lastOutcome' = "none"
    /\ UNCHANGED <<hasCm, enabled, apiKey, inlineAutocompleteInFlight,
                   inlineAutocompleteRequestId, requests>>
    /\ UNCHANGED notAuto

Backspace ==
    /\ cur > 0
    /\ doc' = SubSeq(doc, 1, cur - 1) \o SubSeq(doc, cur + 1, Len(doc))
    /\ cur' = cur - 1
    /\ GhostAfter(MapDelete(ghost.pos, cur))
    /\ EditorChange
    /\ lastOutcome' = "none"
    /\ UNCHANGED <<hasCm, enabled, apiKey, inlineAutocompleteInFlight,
                   inlineAutocompleteRequestId, requests>>
    /\ UNCHANGED notAuto

MoveCursor(o) ==
    /\ o # cur
    /\ cur' = o
    /\ GhostAfter(ghost.pos)
    /\ lastOutcome' = "none"
    /\ UNCHANGED <<doc, hasCm, enabled, apiKey, timer,
                   inlineAutocompleteInFlight, inlineAutocompleteRequestId,
                   requests>>
    /\ UNCHANGED notAuto

\* Mutant of FieldUpdate: the clear effect is not honoured.
FieldUpdateKeeps(value, clear, docChanged, mapped) ==
    IF docChanged /\ value.text # <<>>
    THEN [value EXCEPT !.pos = mapped] ELSE value

\* ghostTextStateField.update for a transaction without a set effect: the
\* clear effect first, then the position mapped through the changes.
FieldUpdate(value, clear, docChanged, mapped) ==
    LET next == IF clear THEN NoGhost ELSE value
    IN  IF docChanged /\ next.text # <<>>
        THEN [next EXCEPT !.pos = mapped] ELSE next

\* What acceptGhostText returns.
AcceptReturns(value) == value.text # <<>>

\* acceptGhostText, bound to Tab in the editor view.
AcceptGhost ==
    /\ hasCm
    /\ IF AcceptReturns(ghost)
       THEN /\ doc' = Insert(doc, ghost.pos, ghost.text)
            /\ cur' = MapInsert(cur, ghost.pos, Len(ghost.text))
            /\ ghost' = FieldUpdate(ghost, TRUE, TRUE,
                           MapInsert(ghost.pos, ghost.pos, Len(ghost.text)))
            /\ EditorChange
            /\ lastOutcome' = "accepted"
       ELSE /\ UNCHANGED <<doc, cur, ghost, timer>>
            /\ lastOutcome' = "none"
    /\ UNCHANGED <<hasCm, enabled, apiKey, inlineAutocompleteInFlight,
                   inlineAutocompleteRequestId, requests>>
    /\ UNCHANGED notAuto

\* Mutant of InFlightGuard: a call goes on while another is in flight.
InFlightGuardOff == FALSE

\* if (this.inlineAutocompleteInFlight) return;
InFlightGuard == inlineAutocompleteInFlight

\* inlineAutocomplete from its entry to its first await.
Invoke ==
    LET cursor     == PosOf(doc, cur)
        lineText   == GetLine(doc, cursor.line)
        linePrefix == SubSeq(lineText, 1, cursor.ch)
        lineSuffix == SubSeq(lineText, cursor.ch + 1, Len(lineText))
    IN  IF \/ InFlightGuard
           \/ Len(Trim(lineSuffix)) > 0
           \/ Len(Trim(linePrefix)) < MinPrefix
        THEN /\ lastOutcome' = "none"
             /\ UNCHANGED <<ghost, inlineAutocompleteInFlight,
                            inlineAutocompleteRequestId, requests>>
        ELSE /\ inlineAutocompleteRequestId < MaxReq
             /\ inlineAutocompleteRequestId' = inlineAutocompleteRequestId + 1
             /\ ghost' = IF hasCm THEN NoGhost ELSE ghost
             /\ IF apiKey = ""
                THEN \* fetchWithAuth throws: catch, finally
                     /\ inlineAutocompleteInFlight' = FALSE
                     /\ requests' = requests
                     /\ lastOutcome' = "error"
                ELSE /\ inlineAutocompleteInFlight' = TRUE
                     /\ requests' = requests \cup
                           { [id     |-> inlineAutocompleteRequestId',
                              cursor |-> cursor,
                              prefix |-> linePrefix] }
                     /\ lastOutcome' = "none"

\* The Inline Autocomplete command.
Command ==
    /\ Invoke
    /\ UNCHANGED <<doc, cur, hasCm, enabled, apiKey, timer>>
    /\ UNCHANGED notAuto

\* The debounce timer fires.
TimerFires ==
    /\ timer
    /\ timer' = FALSE
    /\ Invoke
    /\ UNCHANGED <<doc, cur, hasCm, enabled, apiKey>>
    /\ UNCHANGED notAuto

\* Mutant of IsStale: only the request id is compared.
IsStaleIdOnly(r) == r.id # inlineAutocompleteRequestId

\* The three tests after the stream: request id, cursor, line prefix.
IsStale(r) ==
    \/ r.id # inlineAutocompleteRequestId
    \/ PosOf(doc, cur) # r.cursor
    \/ ~StartsWith(GetLine(doc, r.cursor.line), r.prefix)

\* Mutant of Apply: the completion is always put into the document.
ApplyInsert(r, text) ==
    /\ doc' = Insert(doc, PosToOffset(doc, r.cursor), text)
    /\ ghost' = ghost
    /\ lastOutcome' = "inserted"

\* setGhostText, and replaceRange when it returns false.
Apply(r, text) ==
    IF hasCm
    THEN /\ ghost' = [text |-> text, pos |-> PosToOffset(doc, r.cursor)]
         /\ doc' = doc
         /\ lastOutcome' = "ghost"
    ELSE /\ doc' = Insert(doc, PosToOffset(doc, r.cursor), text)
         /\ ghost' = ghost
         /\ lastOutcome' = "inserted"

\* The stream of a call has finished with the text `completion`: the rest of
\* the try block, and finally.
Finish(r, completion) ==
    /\ r \in requests
    /\ requests' = requests \ {r}
    /\ inlineAutocompleteInFlight' = FALSE
    /\ IF IsStale(r)
       THEN UNCHANGED <<doc, ghost>> /\ lastOutcome' = "stale"
       ELSE IF Cleaned(completion) = <<>>
       THEN UNCHANGED <<doc, ghost>> /\ lastOutcome' = "empty"
       ELSE Apply(r, Cleaned(completion))
    /\ UNCHANGED <<cur, hasCm, enabled, apiKey, timer,
                   inlineAutocompleteRequestId>>
    /\ UNCHANGED notAuto

\* The stream of a call fails: catch, and finally.
Fail(r) ==
    /\ r \in requests
    /\ requests' = requests \ {r}
    /\ inlineAutocompleteInFlight' = FALSE
    /\ lastOutcome' = "error"
    /\ UNCHANGED <<doc, cur, hasCm, enabled, apiKey, ghost, timer,
                   inlineAutocompleteRequestId>>
    /\ UNCHANGED notAuto

UserEdit == (\E c \in Typed : TypeChar(c)) \/ Backspace

NextAuto ==
    \/ \E c \in Typed : TypeChar(c)
    \/ Backspace
    \/ \E o \in 0..Len(doc) : MoveCursor(o)
    \/ AcceptGhost
    \/ Command
    \/ TimerFires
    \/ \E r \in requests, c \in Completions : Finish(r, c)
    \/ \E r \in requests : Fail(r)

(***************************************************************************)
(*          ChatView.sendMessage: scraping, note creation, edits           *)
(*                                                                         *)
(* A note's content is the note it was written for, whether it is a        *)
(* revision made by the model, and whether links were appended to it.  A   *)
(* message is whether it contains URLs and whether it is a create-notes    *)
(* command.  The message list and its saving are left to the model of      *)
(* ChatHistoryManager above.                                               *)
(***************************************************************************)
Content    == [of : Paths \cup {NoFile}, revised : BOOLEAN, links : BOOLEAN]
Original(q) == [of |-> q, revised |-> FALSE, links |-> FALSE]
NoContent  == Original(NoFile)
Kinds      == [urls : BOOLEAN, create : BOOLEAN]
NoMessage  == [urls |-> FALSE, create |-> FALSE]
Answers    == {"Scrape", "Cancel", "close"}

\* The full revised note the model returns for `Original note:\n${noteContent}`.
Revised(content) == [content EXCEPT !.revised = TRUE]

\* `${currentContent}${sectionHeader}${links}`
WithLinks(content) == [content EXCEPT !.links = TRUE]

\* confirmScrapeUrls: finish(true) for Scrape, finish(false) for Cancel,
\* onClose resolves false; a promise keeps its first resolution.
Resolve(answer) == IF answer = "Scrape" THEN "yes" ELSE "no"

\* Mutant of ShouldScrape: the answer is not looked at.
ShouldScrapeAlways(result) == TRUE

\* if (shouldScrape)
ShouldScrape(result) == result = "yes"

\* What one sendMessage call has done so far: messages pushed onto
\* this.messages, calls of saveChatHistory, branches entered.
NoTally == [user |-> 0, assistant |-> 0, saves |-> 0, branches |-> 0]

InitEdit ==
    /\ vault = [q \in Paths |-> Original(q)]
    /\ chatMode = "ask"
    /\ sending = NoMessage
    /\ noteContent = NoContent
    /\ modal = "none"
    /\ contextNote = NoFile
    /\ scrapeReqs = 0
    /\ scrapeNotes = 0
    /\ sent = 0
    /\ tally = NoTally
    /\ buttons = {}

IdleEdit ==
    /\ vault = [q \in Paths |-> Original(q)]
    /\ chatMode = "ask"
    /\ sending = NoMessage
    /\ noteContent = NoContent
    /\ modal = "none"
    /\ contextNote = NoFile
    /\ scrapeReqs = 0
    /\ scrapeNotes = 0
    /\ sent = 0
    /\ tally = NoTally
    /\ buttons = {}

\* catch and finally of sendMessage.
Caught ==
    /\ sendPc' = "idle"
    /\ isGenerating' = FALSE

\* The file-open handler: renderMessages empties the chat container.
EditFileOpen(file) ==
    /\ activeFile' = file
    /\ buttons' = {}
    /\ UNCHANGED <<vault, chatMode, sending, noteContent, modal, contextNote,
                   scrapeReqs, scrapeNotes, sent, tally, isGenerating, sendPc>>
    /\ UNCHANGED notEdit

\* The mode toggle of the view.
ToggleMode ==
    /\ chatMode' = IF chatMode = "ask" THEN "edit" ELSE "ask"
    /\ UNCHANGED <<vault, sending, noteContent, modal, contextNote,
                   scrapeReqs, scrapeNotes, sent, tally, buttons, activeFile,
                   isGenerating, sendPc>>
    /\ UNCHANGED notEdit

\* if (!userMessage || this.isGenerating || !this.activeFile) return;
Guarded(blank) == blank \/ isGenerating \/ activeFile = NoFile

\* sendMessage when its guard returns.  `blank` is whether the trimmed input
\* is empty.
SendIgnored(blank) ==
    /\ Guarded(blank)
    /\ UNCHANGED <<editVars, activeFile, isGenerating, sendPc>>
    /\ UNCHANGED notEdit

\* sendMessage from its guard to await appendMessageToUI('user', ...), which
\* stands before the try block: the user message is pushed.
EditSend(m) ==
    /\ ~Guarded(FALSE)
    /\ sent < MaxSends
    /\ sent' = sent + 1
    /\ isGenerating' = TRUE
    /\ sendPc' = "rendering"
    /\ sending' = m
    /\ modal' = "none"
    /\ tally' = [NoTally EXCEPT !.user = 1]
    /\ UNCHANGED <<vault, chatMode, noteContent, contextNote, scrapeReqs,
                   scrapeNotes, buttons, activeFile>>
    /\ UNCHANGED notEdit

\* The user message is rendered: the try block is entered.
UserRendered ==
    /\ sendPc = "rendering"
    /\ sendPc' = "reading"
    /\ UNCHANGED <<editVars, activeFile, isGenerating>>
    /\ UNCHANGED notEdit

\* MarkdownRenderer.render rejects for the user message: the call ends
\* outside the try block, so neither catch nor finally runs.
UserRenderFails ==
    /\ sendPc = "rendering"
    /\ sendPc' = "idle"
    /\ UNCHANGED <<editVars, activeFile, isGenerating>>
    /\ UNCHANGED notEdit

\* getNoteContent: the note that is active now is read.
ReadNote ==
    /\ sendPc = "reading"
    /\ noteContent' = IF activeFile = NoFile THEN NoContent
                      ELSE vault[activeFile]
    /\ sendPc' = "context"
    /\ UNCHANGED <<vault, chatMode, sending, modal, contextNote, scrapeReqs,
                   scrapeNotes, sent, tally, buttons, activeFile, isGenerating>>
    /\ UNCHANGED notEdit

\* sendMessage from the test of chatMode to the await of its branch.
Dispatch ==
    /\ tally' = [tally EXCEPT !.branches = @ + 1]
    /\ IF chatMode = "edit"
       THEN IF sending.create
            THEN IF activeFile = NoFile
                 THEN Caught /\ UNCHANGED contextNote  \* contextNote.parent
                 ELSE /\ contextNote' = activeFile
                      /\ sendPc' = "creating"
                      /\ UNCHANGED isGenerating
            ELSE /\ sendPc' = "proposing"
                 /\ UNCHANGED <<contextNote, isGenerating>>
       ELSE /\ sendPc' = "asking"      \* generateImage, or the chat stream
            /\ UNCHANGED <<contextNote, isGenerating>>

\* getFolderContext has returned: the modal is opened for a message with
\* URLs, the branch is chosen for one without.
Proceed ==
    /\ sendPc = "context"
    /\ IF sending.urls
       THEN /\ modal' = "open"
            /\ sendPc' = "confirm"
            /\ UNCHANGED <<contextNote, isGenerating, tally>>
       ELSE Dispatch /\ UNCHANGED modal
    /\ UNCHANGED <<vault, chatMode, sending, noteContent, scrapeReqs,
                   scrapeNotes, sent, buttons, activeFile>>
    /\ UNCHANGED notEdit

\* The user answers the modal; sendMessage goes on to createNotesFromScrape,
\* which sends the scrape request, or to its other branches.
Answer(a) ==
    /\ sendPc = "confirm"
    /\ modal = "open"
    /\ modal' = Resolve(a)
    /\ IF ShouldScrape(modal')
       THEN /\ scrapeReqs' = scrapeReqs + 1
            /\ contextNote' = activeFile
            /\ sendPc' = "scraping"
            /\ tally' = [tally EXCEPT !.branches = @ + 1]
            /\ UNCHANGED isGenerating
       ELSE Dispatch /\ UNCHANGED scrapeReqs
    /\ UNCHANGED <<vault, chatMode, sending, noteContent, scrapeNotes, sent,
                   buttons, activeFile>>
    /\ UNCHANGED notEdit

\* The scrape response has arrived with n successful results:
\* createNotesFromScrape after its await.
ScrapeOk(n) ==
    /\ sendPc = "scraping"
    /\ IF n = 0
       THEN /\ sendPc' = "save"
            /\ UNCHANGED <<vault, scrapeNotes, isGenerating>>
       ELSE IF contextNote = NoFile
       THEN Caught /\ UNCHANGED <<vault, scrapeNotes>>  \* contextNote.parent
       ELSE /\ scrapeNotes' = scrapeNotes + n
            /\ vault' = [vault EXCEPT ![contextNote] = WithLinks(@)]
            /\ sendPc' = "save"
            /\ UNCHANGED isGenerating
    /\ UNCHANGED <<chatMode, sending, noteContent, modal, contextNote,
                   scrapeReqs, sent, tally, buttons, activeFile>>
    /\ UNCHANGED notEdit

\* createNotesWithLinks has created its notes and linked them.
CreateDone ==
    /\ sendPc = "creating"
    /\ vault' = [vault EXCEPT ![contextNote] = WithLinks(@)]
    /\ IF activeFile = NoFile
       THEN Caught                                \* this.activeFile.basename
       ELSE sendPc' = "save" /\ UNCHANGED isGenerating
    /\ UNCHANGED <<chatMode, sending, noteContent, modal, contextNote,
                   scrapeReqs, scrapeNotes, sent, tally, buttons, activeFile>>
    /\ UNCHANGED notEdit

\* pendingEditPreview.file: this.activeFile when the stream has ended.
PreviewFile == activeFile

\* The revised note has arrived: pendingEditPreview is set, and
\* appendMessageToUI puts Accept and Reject under the reply.
ProposalOk ==
    /\ sendPc = "proposing"
    /\ buttons' = buttons \cup { [file     |-> PreviewFile,
                                  original |-> noteContent,
                                  updated  |-> Revised(noteContent)] }
    /\ sendPc' = "save"
    /\ UNCHANGED <<vault, chatMode, sending, noteContent, modal, contextNote,
                   scrapeReqs, scrapeNotes, sent, tally, activeFile, isGenerating>>
    /\ UNCHANGED notEdit

\* The chat or image reply has arrived.
AskOk ==
    /\ sendPc = "asking"
    /\ sendPc' = "save"
    /\ UNCHANGED <<vault, chatMode, sending, noteContent, modal, contextNote,
                   scrapeReqs, scrapeNotes, sent, tally, buttons, activeFile,
                   isGenerating>>
    /\ UNCHANGED notEdit

\* The request of a branch fails, the revised note is empty, or the reply
\* cannot be rendered.
BranchFails ==
    /\ sendPc \in {"scraping", "creating", "proposing", "asking", "save"}
    /\ Caught
    /\ UNCHANGED <<vault, chatMode, sending, noteContent, modal, contextNote,
                   scrapeReqs, scrapeNotes, sent, tally, buttons, activeFile>>
    /\ UNCHANGED notEdit

\* The reply is rendered: the assistant message is pushed, and
\* saveChatHistory is called if a note is active now.
EditReply ==
    /\ sendPc = "save"
    /\ IF activeFile # NoFile
       THEN /\ tally' = [tally EXCEPT !.assistant = @ + 1, !.saves = @ + 1]
            /\ sendPc' = "saving"
            /\ UNCHANGED isGenerating
       ELSE /\ tally' = [tally EXCEPT !.assistant = @ + 1]
            /\ Caught
    /\ UNCHANGED <<vault, chatMode, sending, noteContent, modal, contextNote,
                   scrapeReqs, scrapeNotes, sent, buttons, activeFile>>
    /\ UNCHANGED notEdit

\* The exchange has been saved: finally.
EditSaved ==
    /\ sendPc = "saving"
    /\ Caught
    /\ UNCHANGED <<vault, chatMode, sending, noteContent, modal, contextNote,
                   scrapeReqs, scrapeNotes, sent, tally, buttons, activeFile>>
    /\ UNCHANGED notEdit

\* A click on Accept: vault.modify(preview.file, preview.updated).
Accept(b) ==
    /\ b \in buttons
    /\ vault' = IF b.file = NoFile THEN vault
                ELSE [vault EXCEPT ![b.file] = b.updated]
    /\ UNCHANGED <<chatMode, sending, noteContent, modal, contextNote,
                   scrapeReqs, scrapeNotes, sent, tally, buttons, activeFile,
                   isGenerating, sendPc>>
    /\ UNCHANGED notEdit

\* A click on Reject: a notice.
Reject(b) ==
    /\ b \in buttons
    /\ UNCHANGED <<editVars, activeFile, isGenerating, sendPc>>
    /\ UNCHANGED notEdit

NextEdit ==
    \/ \E f \in Paths \cup {NoFile} : EditFileOpen(f)
    \/ ToggleMode
    \/ \E blank \in BOOLEAN : SendIgnored(blank)
    \/ \E m \in Kinds : EditSend(m)
    \/ UserRendered
    \/ UserRenderFails
    \/ ReadNote
    \/ Proceed
    \/ \E a \in Answers : Answer(a)
    \/ \E n \in 0..1 : ScrapeOk(n)
    \/ CreateDone
    \/ ProposalOk
    \/ AskOk
    \/ BranchFails
    \/ EditReply
    \/ EditSaved
    \/ \E b \in buttons : Accept(b)
    \/ \E b \in buttons : Reject(b)

(***************************************************************************)
(*                          getFolderContext                               *)
(*                                                                         *)
(* ChatView.getFolderContext and EditNoteModal.getFolderContext are the    *)
(* same code but for the test of this.activeFile.  Texts are sequences of  *)
(* characters; the result is kept as its length and the files whose        *)
(* entries it holds.                                                       *)
(***************************************************************************)
\* The files of the vault, in the order getMarkdownFiles and the file
\* explorer list them: three notes and an image in folder f, a note in
\* folder g, a note in the root.
VaultFiles ==
    << [path |-> "f/a.md",  folder |-> <<"f">>, basename |-> <<"a">>, md |-> TRUE],
       [path |-> "f/b.md",  folder |-> <<"f">>, basename |-> <<"b">>, md |-> TRUE],
       [path |-> "f/c.md",  folder |-> <<"f">>, basename |-> <<"c">>, md |-> TRUE],
       [path |-> "f/e.png", folder |-> <<"f">>, basename |-> <<"e">>, md |-> FALSE],
       [path |-> "g/d.md",  folder |-> <<"g">>, basename |-> <<"d">>, md |-> TRUE],
       [path |-> "r.md",    folder |-> <<>>,    basename |-> <<"r">>, md |-> TRUE] >>
NoNote == [path |-> "null", folder |-> <<>>, basename |-> <<>>, md |-> FALSE]

\* What vault.read gives: a text, or Unreadable when the read throws.
Texts == { <<>>, <<"x">>, <<"x", "x">> }
Unreadable == <<"throw">>
\* The values the settings tab may hold (parseInt of what was typed).
MaxFilesValues == {-1, 0, 1, 2}
MaxCharsValues == {0, 15, 16, 31, 100}

RECURSIVE SelectSeq2(_, _)
\* Array.prototype.filter
SelectSeq2(seq, keep) ==
    IF seq = <<>> THEN <<>>
    ELSE (IF Head(seq).path \in keep THEN <<Head(seq)>> ELSE <<>>)
            \o SelectSeq2(Tail(seq), keep)

\* app.vault.getMarkdownFiles()
GetMarkdownFiles ==
    SelectSeq2(VaultFiles,
               { VaultFiles[i].path : i \in { j \in 1..Len(VaultFiles) :
                                                 VaultFiles[j].md } })

\* The filter of getFolderContext: not the active file, same parent folder.
Siblings(active) ==
    SelectSeq2(GetMarkdownFiles,
               { GetMarkdownFiles[i].path :
                   i \in { j \in 1..Len(GetMarkdownFiles) :
                             /\ GetMarkdownFiles[j].path # active.path
                             /\ GetMarkdownFiles[j].folder = active.folder } })

\* The length of `\n---\nFile: ${file.basename}\n${content}\n`.
EntryFixed == 13
EntryLength(file, content) == EntryFixed + Len(file.basename) + Len(content)

\* The length of `\n\nContext from notes in folder "${folderPath || '/'}":\n`.
HeaderFixed == 35
HeaderLength(folderPath) ==
    HeaderFixed + (IF folderPath = <<>> THEN 1 ELSE Len(folderPath))

EmptyString == [length |-> 0, notes |-> <<>>]

\* Mutant of CountReached: one file too many.
CountReachedLate(count, maxFiles) == count > maxFiles

\* if (fileCount >= this.settings.folderContextMaxFiles) break
CountReached(count, maxFiles) == count >= maxFiles

InitFolder ==
    /\ \E b, c \in Texts \cup {Unreadable} :
          contents = [q \in { VaultFiles[i].path : i \in 1..Len(VaultFiles) } |->
                         IF q = "f/b.md" THEN b
                         ELSE IF q = "f/c.md" THEN c ELSE <<"x">>]
    /\ folderActive \in {VaultFiles[1], VaultFiles[6], NoNote}
    /\ folderContextEnabled \in BOOLEAN
    /\ folderContextMaxFiles \in MaxFilesValues
    /\ folderContextMaxChars \in MaxCharsValues
    /\ files = <<>>
    /\ fileIdx = 0
    /\ contextEntries = <<>>
    /\ totalChars = 0
    /\ fileCount = 0
    /\ folderPc = "idle"
    /\ folderResult = EmptyString

IdleFolder ==
    /\ contents = [q \in { VaultFiles[i].path : i \in 1..Len(VaultFiles) } |->
                      <<"x">>]
    /\ folderActive = NoNote
    /\ folderContextEnabled = TRUE
    /\ folderContextMaxFiles = 2
    /\ folderContextMaxChars = 100
    /\ files = <<>>
    /\ fileIdx = 0
    /\ contextEntries = <<>>
    /\ totalChars = 0
    /\ fileCount = 0
    /\ folderPc = "idle"
    /\ folderResult = EmptyString

\* getFolderContext from its call to the first vault.read.
FolderCall ==
    /\ folderPc = "idle"
    /\ IF folderActive = NoNote \/ ~folderContextEnabled
          \/ Siblings(folderActive) = <<>>
       THEN /\ folderPc' = "done"
            /\ folderResult' = EmptyString
            /\ UNCHANGED <<files, fileIdx>>
       ELSE /\ folderPc' = "loop"
            /\ files' = Siblings(folderActive)
            /\ fileIdx' = 1
            /\ UNCHANGED folderResult
    /\ UNCHANGED <<contents, folderActive, folderContextEnabled,
                   folderContextMaxFiles, folderContextMaxChars,
                   contextEntries, totalChars, fileCount>>
    /\ UNCHANGED notFolder

\* One iteration of the for loop: the test of fileCount, vault.read, the
\* test of the length, push.
FolderRead ==
    /\ folderPc = "loop"
    /\ fileIdx <= Len(files)
    /\ LET file    == files[fileIdx]
           content == contents[file.path]
       IN  IF CountReached(fileCount, folderContextMaxFiles)
           THEN /\ folderPc' = "return"
                /\ UNCHANGED <<fileIdx, contextEntries, totalChars, fileCount>>
           ELSE IF content = Unreadable \/ content = <<>>
           THEN /\ fileIdx' = fileIdx + 1
                /\ UNCHANGED <<folderPc, contextEntries, totalChars, fileCount>>
           ELSE IF totalChars + EntryLength(file, content)
                      > folderContextMaxChars
           THEN /\ folderPc' = "return"
                /\ UNCHANGED <<fileIdx, contextEntries, totalChars, fileCount>>
           ELSE /\ contextEntries' = Append(contextEntries, file)
                /\ totalChars' = totalChars + EntryLength(file, content)
                /\ fileCount' = fileCount + 1
                /\ fileIdx' = fileIdx + 1
                /\ UNCHANGED folderPc
    /\ UNCHANGED <<contents, folderActive, folderContextEnabled,
                   folderContextMaxFiles, folderContextMaxChars, files,
                   folderResult>>
    /\ UNCHANGED notFolder

\* After the loop: '' without entries, else the header and the entries.
FolderReturn ==
    /\ \/ folderPc = "return"
       \/ folderPc = "loop" /\ fileIdx > Len(files)
    /\ folderPc' = "done"
    /\ folderResult' =
          IF contextEntries = <<>> THEN EmptyString
          ELSE [length |-> HeaderLength(folderActive.folder) + totalChars,
                notes  |-> contextEntries]
    /\ UNCHANGED <<contents, folderActive, folderContextEnabled,
                   folderContextMaxFiles, folderContextMaxChars, files,
                   fileIdx, contextEntries, totalChars, fileCount>>
    /\ UNCHANGED notFolder

NextFolder ==
    \/ FolderCall
    \/ FolderRead
    \/ FolderReturn

(***************************************************************************)
(*            NanoGPTClient: the methods that do not catch                 *)
(***************************************************************************)
Methods == {"streamChatCompletion", "generateImage", "webSearch",
            "scrapeUrls", "checkBalance"}
KeyRequired == "API key is required"
NoCall == [method |-> "none", outcome |-> "none"]

\* Mutant of KeyMissing: the key is not tested.
KeyMissingNever(key) == FALSE

\* if (!this.apiKey)
KeyMissing(key) == key = ""

InitClient ==
    /\ apiKey \in Keys
    /\ outstanding = [m \in Methods |-> 0]
    /\ lastCall = NoCall

IdleClient ==
    /\ outstanding = [m \in Methods |-> 0]
    /\ lastCall = NoCall

\* A method is called: fetchWithAuth throws, or calls fetch.
ClientCall(m) ==
    /\ IF KeyMissing(apiKey)
       THEN /\ lastCall' = [method |-> m, outcome |-> KeyRequired]
            /\ UNCHANGED outstanding
       ELSE /\ outstanding[m] < MaxPending
            /\ outstanding' = [outstanding EXCEPT ![m] = @ + 1]
            /\ lastCall' = [method |-> m, outcome |-> "fetch"]
    /\ UNCHANGED apiKey
    /\ UNCHANGED notClient

\* The response of a request arrives: ok, or not.
ClientResponse(m, ok) ==
    /\ outstanding[m] > 0
    /\ outstanding' = [outstanding EXCEPT ![m] = @ - 1]
    /\ lastCall' = [method |-> m,
                    outcome |-> IF ok THEN "resolved" ELSE "NanoGPT API error"]
    /\ UNCHANGED apiKey
    /\ UNCHANGED notClient

\* saveSettings: setApiKey.
SetApiKey(key) ==
    /\ key # apiKey
    /\ apiKey' = key
    /\ UNCHANGED clientVars
    /\ UNCHANGED notClient

NextClient ==
    \/ \E m \in Methods : ClientCall(m)
    \/ \E m \in Methods, ok \in BOOLEAN : ClientResponse(m, ok)
    \/ \E key \in Keys : SetApiKey(key)

(***************************************************************************)
(*            The editor-change handler and its timer                      *)
(*                                                                         *)
(* window.setTimeout and window.clearTimeout are modelled by the set of    *)
(* pending timeouts: a timeout may run once the clock has reached its due  *)
(* time, and never before.                                                 *)
(***************************************************************************)
DelayValues == {1, 2}
NoAttempt == [at |-> -1, change |-> -1, delay |-> 0]
Timeouts == [id : 1..3, due : 0..(MaxClock + 2), enabled : BOOLEAN]

\* The handle returned by setTimeout: a positive integer that no pending
\* timeout has; it also differs from the handle returned last.
NewHandle ==
    CHOOSE i \in 1..3 :
        /\ i # inlineAutocompleteTimer
        /\ \A t \in timeouts : t.id # i
        /\ \A j \in 1..(i - 1) :
               j = inlineAutocompleteTimer \/ \E t \in timeouts : t.id = j

InitDebounce ==
    /\ clock = 0
    /\ inlineAutocompleteEnabled = FALSE
    /\ inlineAutocompleteDelayMs \in DelayValues
    /\ inlineAutocompleteTimer = 0
    /\ timeouts = {}
    /\ lastChange = -1
    /\ attempt = NoAttempt

IdleDebounce ==
    /\ clock = 0
    /\ inlineAutocompleteEnabled = FALSE
    /\ inlineAutocompleteDelayMs = 1
    /\ inlineAutocompleteTimer = 0
    /\ timeouts = {}
    /\ lastChange = -1
    /\ attempt = NoAttempt

\* if (this.inlineAutocompleteTimer) window.clearTimeout(...): what is
\* pending afterwards.
Cancelled(pendingNow, handle) ==
    IF handle # 0 THEN {t \in pendingNow : t.id # handle} ELSE pendingNow

\* scheduleInlineAutocomplete.
ScheduleInlineAutocomplete ==
    /\ timeouts' = Cancelled(timeouts, inlineAutocompleteTimer) \cup
                      {[id      |-> NewHandle,
                        due     |-> clock + inlineAutocompleteDelayMs,
                        enabled |-> inlineAutocompleteEnabled]}
    /\ inlineAutocompleteTimer' = NewHandle

\* The editor-change handler.  `markdown` is view instanceof MarkdownView,
\* `file` is whether view.file is set, and `applying` is
\* isApplyingAutocomplete, which is set while the plugin's own replaceRange
\* runs.
OnEditorChange(markdown, file, applying) ==
    /\ lastChange' = clock
    /\ IF inlineAutocompleteEnabled /\ markdown /\ file /\ ~applying
       THEN ScheduleInlineAutocomplete
       ELSE UNCHANGED <<timeouts, inlineAutocompleteTimer>>
    /\ UNCHANGED <<clock, inlineAutocompleteEnabled, inlineAutocompleteDelayMs,
                   attempt>>
    /\ UNCHANGED notDebounce

\* A pending timeout runs: inlineAutocomplete(editor, file, true) is called.
TimeoutRuns(t) ==
    /\ t \in timeouts
    /\ t.due <= clock
    /\ timeouts' = timeouts \ {t}
    /\ attempt' = [at |-> clock, change |-> lastChange,
                   delay |-> inlineAutocompleteDelayMs]
    /\ UNCHANGED <<clock, inlineAutocompleteEnabled, inlineAutocompleteDelayMs,
                   inlineAutocompleteTimer, lastChange>>
    /\ UNCHANGED notDebounce

\* Time passes.
TimePasses ==
    /\ clock < MaxClock
    /\ clock' = clock + 1
    /\ UNCHANGED <<inlineAutocompleteEnabled, inlineAutocompleteDelayMs,
                   inlineAutocompleteTimer, timeouts, lastChange, attempt>>
    /\ UNCHANGED notDebounce

\* The toggle of the settings tab.
SetEnabled(value) ==
    /\ value # inlineAutocompleteEnabled
    /\ inlineAutocompleteEnabled' = value
    /\ UNCHANGED <<clock, inlineAutocompleteDelayMs, inlineAutocompleteTimer,
                   timeouts, lastChange, attempt>>
    /\ UNCHANGED notDebounce

\* The delay field of the settings tab.
SetDelay(num) ==
    /\ num # inlineAutocompleteDelayMs
    /\ inlineAutocompleteDelayMs' = num
    /\ UNCHANGED <<clock, inlineAutocompleteEnabled, inlineAutocompleteTimer,
                   timeouts, lastChange, attempt>>
    /\ UNCHANGED notDebounce

NextDebounce ==
    \/ \E markdown, file, applying \in BOOLEAN :
           OnEditorChange(markdown, file, applying)
    \/ \E t \in Timeouts : TimeoutRuns(t)
    \/ TimePasses
    \/ \E value \in BOOLEAN : SetEnabled(value)
    \/ \E num \in DelayValues : SetDelay(num)

(***************************************************************************)
(*      getUniqueNotePath, createNotesWithLinks, createNotesFromScrape     *)
(*                                                                         *)
(* A title and a path are sequences of tokens.  The notes are created in   *)
(* the folder of the context note, which is the same for a whole command,  *)
(* so a path is written without it.  The vault is shared with the user,    *)
(* who may create and delete files while a command awaits.                 *)
(***************************************************************************)
Forbidden == {"\\", "/", ":", "*", "?", "\"", "<", ">", "|"}
TitleValues == {<<"A">>, <<"?", "A", " ">>, <<"A", " (1)">>}
NoPath == <<>>
Md == ".md"

\* ` (${index})` for the indexes the bounds can reach.
IndexSuffix == <<" (1)", " (2)", " (3)", " (4)", " (5)", " (6)", " (7)">>

\* title.replace(/[\\/:*?"<>|]/g, '').trim() || 'Untitled'
SafeTitle(title) ==
    LET stripped == Trim(SelectSeq(title, LAMBDA c : c \notin Forbidden))
    IN  IF stripped = <<>> THEN <<"Untitled">> ELSE stripped

RECURSIVE WhileExists(_, _, _, _)
\* Mutant of WhileExists: the first candidate is returned whether or not it
\* exists.
WhileExistsNot(existing, basePath, candidate, index) == candidate

\* The while loop of getUniqueNotePath.
WhileExists(existing, basePath, candidate, index) ==
    IF candidate \in existing
    THEN WhileExists(existing, basePath,
                     basePath \o <<IndexSuffix[index], Md>>, index + 1)
    ELSE candidate

\* getUniqueNotePath(folderPath, title) in a vault that holds `existing`.
GetUniqueNotePath(existing, title) ==
    LET basePath == SafeTitle(title)
    IN  WhileExists(existing, basePath, basePath \o <<Md>>, 1)

\* The files the user creates or finds in the folder.
UserPaths == {<<"A", Md>>, <<"A", " (1)", Md>>}
Commands == {"createNotesWithLinks", "createNotesFromScrape"}
TitleLists == UNION {[1..n -> TitleValues] : n \in 1..MaxTitles}

InitNotes ==
    /\ paths \in SUBSET UserPaths
    /\ titles = <<>>
    /\ titleIdx = 0
    /\ notePath = NoPath
    /\ createdPaths = <<>>
    /\ notesPc = "idle"
    /\ notesKind = "none"
    /\ removed = FALSE

IdleNotes ==
    /\ paths = {}
    /\ titles = <<>>
    /\ titleIdx = 0
    /\ notePath = NoPath
    /\ createdPaths = <<>>
    /\ notesPc = "idle"
    /\ notesKind = "none"
    /\ removed = FALSE

\* The head of the loop body for title i: the path is chosen, and the
\* command awaits the note's text (createNotesWithLinks) or the creation
\* (createNotesFromScrape).
Iteration(kind, list, i, existing) ==
    /\ titleIdx' = i
    /\ notePath' = GetUniqueNotePath(existing, list[i])
    /\ notesPc' = IF kind = "createNotesWithLinks" THEN "streaming"
                  ELSE "creating"

\* A command reaches its loop with a list of titles: the titles of the
\* create-notes command, or the titles of the successful scrape results.
NotesStart(kind, list) ==
    /\ notesPc = "idle"
    /\ Cardinality(paths) + Len(list) <= MaxPaths
    /\ notesKind' = kind
    /\ titles' = list
    /\ createdPaths' = <<>>
    /\ removed' = FALSE
    /\ Iteration(kind, list, 1, paths)
    /\ UNCHANGED paths
    /\ UNCHANGED notNotes

\* streamChatCompletion has returned the note's text: vault.create is called.
NoteStreamed ==
    /\ notesPc = "streaming"
    /\ notesPc' = "creating"
    /\ UNCHANGED <<paths, titles, titleIdx, notePath, createdPaths, notesKind,
                   removed>>
    /\ UNCHANGED notNotes

\* The command is over: its locals are gone.
CommandEnds ==
    /\ notesPc' = "idle"
    /\ titles' = <<>>
    /\ titleIdx' = 0
    /\ notePath' = NoPath

\* streamChatCompletion throws: the command ends.
NoteStreamFails ==
    /\ notesPc = "streaming"
    /\ CommandEnds
    /\ UNCHANGED <<paths, createdPaths, notesKind, removed>>
    /\ UNCHANGED notNotes

\* vault.create settles.  It rejects when the path exists by now, which ends
\* the command; else the file exists, its path is pushed, and the loop goes
\* on to the next title or to the links.
NoteCreated ==
    /\ notesPc = "creating"
    /\ IF notePath \in paths
       THEN /\ CommandEnds
            /\ UNCHANGED <<paths, createdPaths>>
       ELSE /\ paths' = paths \cup {notePath}
            /\ createdPaths' = Append(createdPaths, notePath)
            /\ IF titleIdx < Len(titles)
               THEN Iteration(notesKind, titles, titleIdx + 1, paths')
               ELSE /\ notesPc' = "linking"
                    /\ UNCHANGED <<titleIdx, notePath>>
            /\ UNCHANGED titles
    /\ UNCHANGED <<notesKind, removed>>
    /\ UNCHANGED notNotes

\* The links have been appended to the context note: the command returns
\* createdPaths.
NotesLinked ==
    /\ notesPc = "linking"
    /\ CommandEnds
    /\ UNCHANGED <<paths, createdPaths, notesKind, removed>>
    /\ UNCHANGED notNotes

\* The user creates a file in the folder.
UserCreates(path) ==
    /\ path \notin paths
    /\ Cardinality(paths) < MaxPaths
    /\ paths' = paths \cup {path}
    /\ UNCHANGED <<titles, titleIdx, notePath, createdPaths, notesPc,
                   notesKind, removed>>
    /\ UNCHANGED notNotes

\* The user deletes a file of the folder.
UserDeletes(path) ==
    /\ path \in paths
    /\ paths' = paths \ {path}
    /\ removed' = (removed \/ notesPc # "idle")
    /\ UNCHANGED <<titles, titleIdx, notePath, createdPaths, notesPc,
                   notesKind>>
    /\ UNCHANGED notNotes

NextNotes ==
    \/ \E kind \in Commands, list \in TitleLists : NotesStart(kind, list)
    \/ NoteStreamed
    \/ NoteStreamFails
    \/ NoteCreated
    \/ NotesLinked
    \/ \E path \in UserPaths : UserCreates(path)
    \/ \E path \in UserPaths : UserDeletes(path)

(***************************************************************************)
(* The specifications.                                                     *)
(***************************************************************************)
\* What the specifications below leave at rest.
IdleMore   == IdleDebounce /\ IdleNotes
IdleRest   == IdleEdit /\ IdleFolder /\ IdleClient /\ IdleMore
StartSSE   == InitSSE /\ IdleCache /\ IdleChat /\ IdleAuto /\ IdleRest
StartCache == InitCache /\ IdleSSE /\ IdleChat /\ IdleAuto /\ IdleRest
StartChat  == InitChat /\ IdleSSE /\ IdleCache /\ IdleAuto /\ IdleRest
StartEdit  ==
    /\ InitEdit /\ IdleSSE /\ IdleCache /\ IdleChat /\ IdleAuto /\ IdleFolder
    /\ IdleClient /\ IdleMore
StartFolder ==
    /\ InitFolder /\ IdleSSE /\ IdleCache /\ IdleChat /\ IdleAuto /\ IdleEdit
    /\ IdleClient /\ IdleMore
StartClient ==
    /\ InitClient /\ IdleSSE /\ IdleChat /\ IdleAuto /\ IdleEdit /\ IdleFolder
    /\ IdleMore
    /\ now = 0
    /\ modelCache = [k \in CacheKeys |-> NoEntry]
    /\ imageModelCache = NoEntry
    /\ pending = [e \in Endpoints |-> 0]
    /\ lastRet = NoRet
    /\ issuedBefore = [e \in Endpoints |-> 0]
    /\ staleEntries = {}
StartAuto  ==
    /\ InitAuto /\ IdleSSE /\ IdleChat /\ IdleRest
    /\ now = 0
    /\ modelCache = [k \in CacheKeys |-> NoEntry]
    /\ imageModelCache = NoEntry
    /\ pending = [e \in Endpoints |-> 0]
    /\ lastRet = NoRet
    /\ issuedBefore = [e \in Endpoints |-> 0]
    /\ staleEntries = {}
StartDebounce ==
    /\ InitDebounce /\ IdleSSE /\ IdleCache /\ IdleChat /\ IdleAuto /\ IdleEdit
    /\ IdleFolder /\ IdleClient /\ IdleNotes
StartNotes ==
    /\ InitNotes /\ IdleSSE /\ IdleCache /\ IdleChat /\ IdleAuto /\ IdleEdit
    /\ IdleFolder /\ IdleClient /\ IdleDebounce

SpecSSE   == StartSSE /\ [][NextSSE]_vars
SpecCache == StartCache /\ [][NextCache]_vars
SpecChat  == StartChat /\ [][NextChat]_vars
SpecAuto  == StartAuto /\ [][NextAuto]_vars
SpecEdit  == StartEdit /\ [][NextEdit]_vars
SpecFolder == StartFolder /\ [][NextFolder]_vars
SpecClient == StartClient /\ [][NextClient]_vars
SpecDebounce == StartDebounce /\ [][NextDebounce]_vars
SpecNotes == StartNotes /\ [][NextNotes]_vars
SpecInvalidate == StartCache /\ [][NextInvalidate]_vars


(***************************************************************************)
(* Properties of the model-list cache.                                     *)
(***************************************************************************)
\* The entry a call for the endpoint looks at, and the step that is the call.
EntryOf(e) == IF e = "image" THEN imageModelCache ELSE modelCache[e]

CallOf(e) ==
    IF e = "image" THEN ListImageModels ELSE ListModels(e = "subscription")

ServedFromCache(e) ==
    /\ lastRet' = [endpoint |-> e, path |-> "cache", models |-> EntryOf(e).models]
    /\ pending' = pending

RequestIssued(e) == pending' = [pending EXCEPT ![e] = @ + 1]

RECURSIVE TerminatedLines(_, _, _)
TerminatedLines(s, i, acc) ==
    IF i > Len(s) THEN <<>>
    ELSE IF s[i] = "NL" THEN << acc >> \o TerminatedLines(s, i + 1, <<>>)
    ELSE TerminatedLines(s, i + 1, Append(acc, s[i]))

\* The content a line carries when it has the form `data: <json>` with a
\* non-empty string content, as a sequence of zero or one content.
DataOf(line) ==
    IF Len(line) >= 2 /\ line[1] = "data:" /\ line[2] = " "
       /\ DeltaContent(SubSeq(line, 3, Len(line))) \in {"a", "b"}
    THEN << DeltaContent(SubSeq(line, 3, Len(line))) >>
    ELSE <<>>

RECURSIVE ExactContents(_)
ExactContents(lines) ==
    IF lines = <<>> THEN <<>>
    ELSE DataOf(Head(lines)) \o ExactContents(Tail(lines))

RECURSIVE TrimmedContents(_)
TrimmedContents(lines) ==
    IF lines = <<>> THEN <<>>
    ELSE DataOf(Trim(Head(lines))) \o TrimmedContents(Tail(lines))

Consumed == SubSeq(stream, 1, pos)

\* C2 as stated: the onChunk calls are exactly the contents of the
\* newline-terminated lines that have the form `data: <json>` with a
\* non-empty string content, once each and in stream order, whatever the
\* partition into reads; every other line causes no call.
C2_ChunksAreDataLines ==
    chunks = ExactContents(TerminatedLines(Consumed, 1, <<>>))

\* C2 as amended: the same with every line taken after white space is
\* trimmed from both of its ends: an indented `data: <json>` line is
\* delivered too.  Holding in every state, for every partition, the calls
\* depend on the body alone.
C2_ChunksAreTrimmedDataLines ==
    chunks = TrimmedContents(TerminatedLines(Consumed, 1, <<>>))

\* Witness of C2: a call has returned after delivering two contents, the
\* first of them from a line that starts with white space.
C2_Witness ==
    /\ sseDone
    /\ Len(chunks) = 2
    /\ stream[1] = " "
    /\ stream[2] = "data:"

\* The body up to and including its first `data: [DONE]` line; the whole
\* body when it has none.
RECURSIVE UpToDone(_, _, _)
UpToDone(s, i, acc) ==
    IF i > Len(s) THEN s
    ELSE IF s[i] = "NL"
         THEN IF Trim(acc) = <<"data:", " ", "[DONE]">> THEN SubSeq(s, 1, i)
              ELSE UpToDone(s, i + 1, <<>>)
         ELSE UpToDone(s, i + 1, Append(acc, s[i]))

\* C3: no content that follows a `data: [DONE]` line is delivered: the calls
\* made are among those of the body cut after its first `data: [DONE]` line.
C3_DoneEndsDelivery ==
    Len(chunks) <=
        Len(TrimmedContents(TerminatedLines(UpToDone(stream, 1, <<>>), 1, <<>>)))

(***************************************************************************)
(* Properties of the chat history store.                                   *)
(***************************************************************************)
\* The steps that are a saveChatHistory for path q: the save at the end of
\* sendMessage, clearChat, and appendMessage.
SendSavesTo(q)   == SendReply /\ activeFile = q
ClearSavesTo(q)  == ClearChat /\ activeFile = q
AppendSavesTo(q) == AppendMessage(q, [role |-> "user", sentAt |-> q])
SavesTo(q)       == SendSavesTo(q) \/ ClearSavesTo(q) \/ AppendSavesTo(q)

\* C4: what loadChatHistory returns for a path is the list last passed to
\* saveChatHistory for it: it becomes the passed list at a save (the view's
\* list at the end of sendMessage, the empty list at a clear, the previous
\* list with the message at its end at an append) and no other step changes
\* it.
C4_LoadReturnsLastSaved ==
    [][ \A q \in Paths :
          IF AppendSavesTo(q)
          THEN LoadChatHistory(q)' =
                  Append(LoadChatHistory(q), [role |-> "user", sentAt |-> q])
          ELSE IF ClearSavesTo(q) THEN LoadChatHistory(q)' = <<>>
          ELSE IF SendSavesTo(q) THEN LoadChatHistory(q)' = heap'[messages']
          ELSE LoadChatHistory(q)' = LoadChatHistory(q) ]_vars

\* C5: a save for one path leaves what the store holds for every other path
\* as it was, and leaves the other plugin setting as it was, in the settings
\* object and in the data handed to saveData.
C5_SaveTouchesOnePath ==
    [][ \A q \in Paths :
          SavesTo(q) =>
              /\ \A r \in Paths \ {q} : LoadChatHistory(r)' = LoadChatHistory(r)
              /\ other' = other
              /\ handed'.other = handed.other ]_vars

\* Witness of C5: a sendMessage has just saved under one note while the
\* other note has a history of its own.
C5_Witness ==
    /\ sendPc = "saving"
    /\ activeFile # NoFile
    /\ \A q \in Paths : LoadChatHistory(q) # <<>>
    /\ history["a.md"] # history["b.md"]

\* C6: a save hands saveData a settings object whose chatHistory holds the
\* given list under the path, and when the call completes the data last
\* handed to saveData agrees with loadChatHistory for every path.
HandedAgrees ==
    /\ handed.hasHistory
    /\ \A q \in Paths : handed.chatHistory[q] = LoadChatHistory(q)

C6_HandedAgreesAfterSave ==
    [][ /\ \A q \in Paths :
              SavesTo(q) => handed'.chatHistory[q] = LoadChatHistory(q)'
        /\ (SendSaved \/ ClearDone) => HandedAgrees ]_vars

\* C7: every message the store holds for a note belongs to an exchange that
\* was sent while that note was active.
C7_ExchangeStaysInItsNote ==
    \A q \in Paths :
        \A i \in 1..Len(LoadChatHistory(q)) : LoadChatHistory(q)[i].sentAt = q

(***************************************************************************)
(* Properties of inlineAutocomplete.                                       *)
(***************************************************************************)
\* C8: at most one inline-autocomplete request is outstanding at any time,
\* and a call of inlineAutocomplete, by the command or by the timer, made
\* while inlineAutocompleteInFlight is true sends no request and leaves
\* inlineAutocompleteRequestId and the ghost text as they are.
C8_OneRequestAtATime ==
    /\ [](Cardinality(requests) <= 1)
    /\ [][ (Command \/ TimerFires) /\ inlineAutocompleteInFlight
             => UNCHANGED <<requests, inlineAutocompleteRequestId, ghost>> ]_vars

\* The second request is in flight and the timer is about to call again.
C8_Witness ==
    /\ inlineAutocompleteInFlight
    /\ inlineAutocompleteRequestId = 2
    /\ Cardinality(requests) = 1
    /\ timer

\* The completion of call r would be stale now.
StaleNow(r) ==
    \/ r.id # inlineAutocompleteRequestId
    \/ PosOf(doc, cur).line # r.cursor.line
    \/ PosOf(doc, cur).ch # r.cursor.ch
    \/ ~StartsWith(GetLine(doc, r.cursor.line), r.prefix)

\* C9: when the stream of a call finishes and its completion is stale (the
\* request id is not the latest, or the cursor is not at the captured line
\* and column, or the line does not start with the captured prefix), the
\* call sets no ghost text and puts nothing into the document.
C9_StaleIsDiscarded ==
    [][ \A r \in requests, c \in Completions :
            Finish(r, c) /\ StaleNow(r) => UNCHANGED <<doc, ghost>> ]_vars

\* A call has just ended with a stale completion.
C9_Witness ==
    /\ lastOutcome = "stale"
    /\ ghost = NoGhost
    /\ ~inlineAutocompleteInFlight

\* C10, as stated: the document changes only by the user's typing and by
\* acceptGhostText; no step of inlineAutocomplete changes it.
C10_OnlyTabInserts ==
    [][ doc' # doc => UserEdit \/ AcceptGhost ]_vars

\* C10, amended: the document changes only by the user's typing, by
\* acceptGhostText, or, in an editor without a view to show ghost text in,
\* by the end of a call whose completion is not stale, which puts the
\* cleaned completion in at the captured cursor.
C10_InsertsOnTabOrWithoutView ==
    [][ doc' # doc =>
          \/ UserEdit
          \/ AcceptGhost
          \/ /\ ~hasCm
             /\ \E r \in requests, c \in Completions :
                   /\ Finish(r, c)
                   /\ ~StaleNow(r)
                   /\ doc' = Insert(doc, PosToOffset(doc, r.cursor),
                                    Cleaned(c)) ]_vars

\* A suggestion has just been put on display in an editor with a view.
C10_Witness ==
    /\ hasCm
    /\ lastOutcome = "ghost"
    /\ ghost.text # <<>>

\* C11: acceptGhostText with a non-empty ghost state puts exactly the ghost
\* text into the document at the ghost position, leaves the ghost state
\* empty and returns true; with an empty ghost state it returns false and
\* leaves the document and the ghost state as they are.
C11_TabAcceptsGhost ==
    [][ AcceptGhost =>
          IF ghost.text # <<>>
          THEN /\ AcceptReturns(ghost)
               /\ doc' = SubSeq(doc, 1, ghost.pos) \o ghost.text
                           \o SubSeq(doc, ghost.pos + 1, Len(doc))
               /\ ghost'.text = <<>>
          ELSE /\ ~AcceptReturns(ghost)
               /\ UNCHANGED <<doc, ghost>> ]_vars

\* A ghost text has just been accepted into a document that was edited
\* while the ghost text was on display.
C11_Witness ==
    /\ lastOutcome = "accepted"
    /\ ghost = NoGhost
    /\ Len(doc) > MinPrefix + 1

(***************************************************************************)
(* Properties of the branches of sendMessage.                              *)
(***************************************************************************)
\* C12: a scrape request is sent, and a note is created from scrape
\* results, only for a message whose confirmation modal was answered with
\* Scrape; once the modal of a message is cancelled or closed, no scrape
\* request is sent and no note is created from scrape results for it.
C12_ScrapeOnlyConfirmed ==
    [][ /\ scrapeReqs' # scrapeReqs =>
              modal = "open" /\ modal' = "yes" /\ Answer("Scrape")
        /\ scrapeNotes' # scrapeNotes => modal = "yes"
        /\ modal' = "no" => UNCHANGED <<scrapeReqs, scrapeNotes>> ]_vars

\* After a message whose URLs were scraped, the modal of the next message
\* was cancelled or closed and its create-notes command is being carried out.
C12_Witness ==
    /\ modal = "no"
    /\ sendPc = "creating"
    /\ scrapeReqs = 1
    /\ scrapeNotes = 1

\* C13: in edit mode, for a message without URLs that is not a create-notes
\* command, a note changes only by a click on Accept, which sets the file
\* captured with the proposal to the proposed content, the revision of that
\* file's content; generating the proposal and Reject change no note.
C13_OnlyAcceptEdits ==
    [][ vault' # vault /\ (isGenerating => ~sending.urls /\ ~sending.create)
          => \E b \in buttons :
                /\ Accept(b)
                /\ vault' = [vault EXCEPT ![b.file] = b.updated]
                /\ b.updated = Revised(b.original)
                /\ b.original.of = b.file ]_vars

(***************************************************************************)
(* Properties of getFolderContext.                                         *)
(***************************************************************************)
Returned == folderPc = "done"

\* C14: the text getFolderContext returns is at most folderContextMaxChars
\* characters long.
C14_ResultWithinMaxChars ==
    Returned => folderResult.length <= folderContextMaxChars

NotesOf(result) == { result.notes[i] : i \in 1..Len(result.notes) }

\* The included notes are markdown siblings of the active note; nothing is
\* returned when the feature is off or no sibling has readable content.
SiblingsOnly ==
    /\ \A file \in NotesOf(folderResult) :
          /\ file.md
          /\ file.folder = folderActive.folder
          /\ file.path # folderActive.path
    /\ (\/ ~folderContextEnabled
        \/ \A i \in 1..Len(VaultFiles) :
              (/\ VaultFiles[i].md
               /\ VaultFiles[i].folder = folderActive.folder
               /\ VaultFiles[i].path # folderActive.path)
                 => contents[VaultFiles[i].path] \in {Unreadable, <<>>})
          => folderResult = EmptyString

\* C15, as stated: at most folderContextMaxFiles notes are included, all of
\* them markdown siblings of the active note, and the result is empty when
\* the feature is off or no sibling has non-empty readable content.
C15_AtMostMaxFiles ==
    Returned =>
       /\ Len(folderResult.notes) <= folderContextMaxFiles
       /\ SiblingsOnly

\* C15, amended: at most folderContextMaxFiles notes are included, and none
\* when that setting is zero or negative; the rest as stated.
C15_AtMostMaxFilesOrNone ==
    Returned =>
       /\ Len(folderResult.notes) <=
             (IF folderContextMaxFiles < 0 THEN 0 ELSE folderContextMaxFiles)
       /\ SiblingsOnly

\* A call has returned with as many notes as the setting allows, while
\* another sibling with content was left out.
C15_Witness ==
    /\ Returned
    /\ folderContextMaxFiles = 1
    /\ Len(folderResult.notes) = 1
    /\ contents["f/c.md"] = <<"x">>
    /\ contents["f/b.md"] = <<"x">>

(***************************************************************************)
(* Properties of the client's requests.                                    *)
(***************************************************************************)
\* C16: no HTTP request is issued while the API key is empty; a call of
\* streamChatCompletion, generateImage, webSearch, scrapeUrls or
\* checkBalance made then is rejected with 'API key is required'.
C16_NoRequestWithoutKey ==
    [][ \A m \in Methods :
          /\ outstanding'[m] > outstanding[m] => apiKey # ""
          /\ ClientCall(m) /\ apiKey = ""
                => /\ outstanding' = outstanding
                   /\ lastCall' = [method |-> m,
                                   outcome |-> "API key is required"] ]_vars

\* A request was issued with a key, the key was then emptied, and the next
\* call was rejected.
C16_Witness ==
    /\ apiKey = ""
    /\ lastCall = [method |-> "scrapeUrls", outcome |-> KeyRequired]
    /\ outstanding["streamChatCompletion"] = 1

\* C17: once Clear Chat has completed for a note, the stored history of that
\* note is empty for as long as the user has sent no new message, also when
\* a generation was in flight when the chat was cleared.
C17_ClearedStaysEmpty ==
    (cleared # NoFile /\ clearPc = "idle") => LoadChatHistory(cleared) = <<>>

\* C18: the automatic autocomplete is debounced: at most one timeout is
\* pending, a timeout runs the autocomplete only when
\* inlineAutocompleteDelayMs have passed since the last editor change, and a
\* timeout is scheduled only while inlineAutocompleteEnabled is set.
C18_Debounced ==
    /\ Cardinality(timeouts) <= 1
    /\ attempt # NoAttempt => attempt.at - attempt.change >= attempt.delay
    /\ \A t \in timeouts : t.enabled

Distinct(seq) ==
    \A i, j \in 1..Len(seq) : i # j => seq[i] # seq[j]

\* getUniqueNotePath has just returned the path of an iteration.
Chosen == titleIdx' # titleIdx /\ titleIdx' # 0

\* C19 as stated: a path handed to vault.create did not exist in the vault
\* when getUniqueNotePath chose it, and the paths one command has created
\* are pairwise distinct.
C19_NoCollision ==
    /\ [][Chosen => notePath' \notin paths']_vars
    /\ [](Distinct(createdPaths))

\* C19 amended: a path handed to vault.create did not exist in the vault
\* when getUniqueNotePath chose it, and the paths one command has created
\* are pairwise distinct unless a file was deleted from the folder while the
\* command ran.
C19_NoCollisionUnlessDeleted ==
    /\ [][Chosen => notePath' \notin paths']_vars
    /\ [](removed \/ Distinct(createdPaths))

C19_Witness ==
    /\ notesPc = "linking"
    /\ ~removed
    /\ titles = <<(<<"A">>), (<<"A">>), (<<"?", "A", " ">>)>>
    /\ createdPaths = <<(<<"A", " (1)", Md>>), (<<"A", " (2)", Md>>),
                        (<<"A", " (3)", Md>>)>>

\* C20: the chat model cache has no key but 'subscription' and 'all', the
\* list under a key was fetched by a call with that key's subscriptionOnly,
\* and a list returned from the cache was fetched by such a call too.
C20_EntryFetchedForItsKey ==
    /\ DOMAIN modelCache \subseteq {"subscription", "all"}
    /\ \A subscriptionOnly \in BOOLEAN :
          LET cached == modelCache[CacheKeyOf(subscriptionOnly)]
          IN  cached # NoEntry =>
                 cached.models.from =
                    (IF subscriptionOnly THEN "subscription" ELSE "all")
    /\ (lastRet # NoRet /\ lastRet.path = "cache"
           /\ lastRet.endpoint \in {"subscription", "all"})
          => lastRet.models.from = lastRet.endpoint

C20_Witness ==
    /\ modelCache["all"] # NoEntry
    /\ modelCache["subscription"] # NoEntry
    /\ modelCache["all"].models.ver # modelCache["subscription"].models.ver
    /\ lastRet = [endpoint |-> "subscription", path |-> "cache",
                  models |-> [from |-> "subscription", ver |-> 2]]

\* C21: isGenerating is set exactly while a sendMessage call is between its
\* guard and its end, so it is false again once the call has ended; and a
\* call that its guard turns away changes nothing.
C21_GeneratingWhileSending ==
    /\ [](isGenerating <=> sendPc # "idle")
    /\ [][\A blank \in BOOLEAN :
             SendIgnored(blank) => UNCHANGED <<tally, sent, scrapeReqs, vault>>]_vars

\* C24: a sendMessage call that ends without an error has pushed one user
\* message and one assistant message, has called saveChatHistory once, and
\* has entered one branch.
C24_OneExchangeOneSave ==
    [][(sendPc \in {"save", "saving"} /\ sendPc' = "idle" /\ ~BranchFails)
          => tally' = [user |-> 1, assistant |-> 1, saves |-> 1,
                       branches |-> 1]]_vars

\* C22: once saveSettings has invalidated the cache, a list call does not
\* return from the cache a list whose request was sent before that
\* invalidation, a request that was pending at the invalidation included.
C22_NoListFromBeforeInvalidation ==
    [][ \A e \in Endpoints :
          (CallOf(e) /\ lastRet'.path = "cache") => e \notin staleEntries ]_vars

\* The list call of endpoint e follows a call of e that returned the
\* fallback list.
AfterFallback(e) ==
    /\ lastRet = [endpoint |-> e, path |-> "fallback", models |-> Fallback(e)]
    /\ CallOf(e)

\* A failed request returns the fallback list and leaves the cache as it is,
\* and the cache never holds the fallback list.
FallbackNotStored ==
    /\ [](\A e \in Endpoints :
            EntryOf(e) # NoEntry => EntryOf(e).models # Fallback(e))
    /\ [][\A e \in Endpoints :
            FetchFail(e) =>
               /\ lastRet' = [endpoint |-> e, path |-> "fallback",
                              models |-> Fallback(e)]
               /\ EntryOf(e)' = EntryOf(e)]_vars

\* C23 as stated: a list call whose request fails returns the fallback list,
\* the fallback list is never stored, and the call that follows sends a new
\* request.
C23_FallbackThenRequest ==
    /\ FallbackNotStored
    /\ [][\A e \in Endpoints : AfterFallback(e) => RequestIssued(e)]_vars

\* C23 as amended: the same, except that the call that follows sends a new
\* request only if the API key is set and no other call has stored a list in
\* the meantime; it returns that list if there is one, and the fallback list
\* again if the key is empty.
C23_FallbackThenRetry ==
    /\ FallbackNotStored
    /\ [][\A e \in Endpoints :
            AfterFallback(e) =>
               IF EntryOf(e) # NoEntry /\ CacheFresh(now, EntryOf(e).timestamp)
               THEN ServedFromCache(e)
               ELSE IF apiKey # ""
               THEN RequestIssued(e)
               ELSE /\ pending' = pending
                    /\ lastRet' = lastRet]_vars

C23_Witness ==
    /\ lastRet = [endpoint |-> "subscription", path |-> "fallback",
                  models |-> Fallback("subscription")]
    /\ apiKey # ""
    /\ modelCache["subscription"] = NoEntry
    /\ modelCache["all"] # NoEntry

\* C25: a sendMessage call that fails changes the stored chat history in
\* none of its steps: neither the step that takes the user message nor the
\* catch changes what loadChatHistory returns for any note, and the catch
\* calls no saveChatHistory and adds no message, so that the history after
\* the failed send is the one from before it.
C25_FailedSendKeepsHistory ==
    /\ [][SendFail => /\ history' = history
                      /\ handed' = handed
                      /\ heap' = heap]_vars
    /\ [][(SendStart \/ SendFail) =>
             \A q \in Paths : LoadChatHistory(q)' = LoadChatHistory(q)]_vars

====
